---- MODULE Spec2Model ----
(***************************************************************************)
(* Model of textual_date_spinner/spinner.py: a BasicDatePicker that owns   *)
(* three NumberSpinner widgets (day, month, year), each wrapping a Textual *)
(* Input.                                                                  *)
(*                                                                         *)
(* Dispatch semantics.  Every `post_message` of the source appends the     *)
(* message to the queue of the posting widget; the widget's message pump   *)
(* later takes it, runs the widget's handlers, and then bubbles it to the  *)
(* parent's queue.  Handlers are synchronous functions, so each handler    *)
(* runs atomically; different widgets' pumps interleave freely.  Assigning *)
(* `Input.value` runs the Input's watcher at once, which posts             *)
(* Input.Changed on the Input's own queue when the text really changed.    *)
(*                                                                         *)
(* Queues of the model:                                                    *)
(*   inq[f]  Input.Changed messages on their way from the Input of         *)
(*           spinner f (through the inner Horizontal) to spinner f         *)
(*   sq[f]   the queue of spinner f                                        *)
(*   pq      messages that left a spinner, on their way (through the outer *)
(*           Horizontal) to the BasicDatePicker, in arrival order          *)
(***************************************************************************)
EXTENDS Integers, Sequences, FiniteSets, TLC

VARIABLES value, min, max, inq, sq, pq, changed, rule, raised, last

vars == <<value, min, max, inq, sq, pq, changed, rule, raised, last>>

Fields == {"day", "month", "year"}

(***************************************************************************)
(* Bounds of the model.                                                    *)
(***************************************************************************)
\* date.today().year - min_year: the year spinner's range is
\* [min_year, min_year + YearsSinceMin + 1]
YearsSinceMin == 0
\* user events are offered while year.value is less than MaxDrift years
\* outside [year.min, year.max]
MaxDrift == 1

\* the values of the constructor's min_year parameter that are explored
MinYears == {1, 1899, 2023}

(***************************************************************************)
(* Calendar: calendar.monthrange(year, month)[1] and datetime.date.        *)
(***************************************************************************)
isleap(y) == y % 4 = 0 /\ (y % 100 # 0 \/ y % 400 = 0)

mdays(m) == CASE m = 2 -> 28
              [] m \in {4, 6, 9, 11} -> 30
              [] OTHER -> 31

\* monthrange(year, month)[1]; the caller guarantees 1 <= month <= 12
monthrange(y, m) == mdays(m) + (IF m = 2 /\ isleap(y) THEN 1 ELSE 0)

MINYEAR == 1
MAXYEAR == 9999

\* datetime.date(y, m, d) raises ValueError exactly when this is false
DateOk(y, m, d) ==
    /\ MINYEAR <= y /\ y <= MAXYEAR
    /\ 1 <= m /\ m <= 12
    /\ 1 <= d /\ d <= monthrange(y, m)

(***************************************************************************)
(* Text of an Input.  An Input holds str(n) of an integer n; the model     *)
(* keeps n and computes what the source computes on the text.              *)
(***************************************************************************)
RECURSIVE NumDigits(_)
NumDigits(n) == IF n < 10 THEN 1 ELSE 1 + NumDigits(n \div 10)

\* len(str(n))
StrLen(n) == IF n < 0 THEN 1 + NumDigits(-n) ELSE NumDigits(n)

\* int(re.sub(r"\D*", "", str(n))): the sign is not a digit
DigitsOnly(n) == IF n < 0 THEN -n ELSE n

(***************************************************************************)
(* Messages.  One record shape for the three message types:                *)
(*   Input.Changed              number = event.value                       *)
(*   NumberSpinner.NumberChanged number = event.number                     *)
(*   NumberSpinner.ButtonSpin    number = event.transient_number           *)
(***************************************************************************)
InputChanged(f, v) ==
    [type |-> "InputChanged", src |-> f, number |-> v, direction |-> "none"]

NumberChanged(f, n) ==
    [type |-> "NumberChanged", src |-> f, number |-> n, direction |-> "none"]

ButtonSpin(f, dir, n) ==
    [type |-> "ButtonSpin", src |-> f, number |-> n, direction |-> dir]

(***************************************************************************)
(* The handlers are operators from a world w (the mutable state as a       *)
(* record) to the world after the call.                                    *)
(***************************************************************************)
World ==
    [value |-> value, max |-> max, inq |-> inq, sq |-> sq, pq |-> pq,
     changed |-> changed, rule |-> rule, raised |-> raised]

\* self.post_message(msg) of spinner f
post_message(w, f, msg) == [w EXCEPT !.sq[f] = Append(@, msg)]

\* self.input.value = str(v): the Input's watcher posts Input.Changed when
\* the text differs from the old one
SetInput(w, f, v) ==
    IF w.value[f] = v
    THEN w
    ELSE [w EXCEPT !.value[f] = v, !.inq[f] = Append(@, InputChanged(f, v))]

set_value_no_msg(w, f, v) == SetInput(w, f, v)

\* NumberSpinner.value setter
SetValue(w, f, v) ==
    LET w1 == SetInput(w, f, v)
    IN  post_message(w1, f, NumberChanged(f, w1.value[f]))

number_valid(w, f) == min[f] <= w.value[f] /\ w.value[f] <= w.max[f]

\* constrain_value without lines 116-117: only the upper bound is enforced
constrain_value_upper_only(w, f) ==
    IF w.value[f] > w.max[f] THEN SetInput(w, f, w.max[f]) ELSE w

\* the text is never empty here (it is always str of an integer), so the
\* early return of line 112 is not taken; the cursor is not modelled
constrain_value(w, f) ==
    LET w1 == IF w.value[f] > w.max[f] THEN set_value_no_msg(w, f, w.max[f]) ELSE w
    IN  IF w1.value[f] < min[f] THEN set_value_no_msg(w1, f, min[f]) ELSE w1

\* NumberSpinner._up_down_btn for the button `dir` of spinner f
up_down_btn(w, f, dir) ==
    IF dir = "up"
    THEN LET current_value == w.value[f] + 1
             w1 == IF current_value <= w.max[f]
                   THEN SetValue(w, f, current_value) ELSE w
         IN  post_message(w1, f, ButtonSpin(f, "up", current_value))
    ELSE LET current_value == w.value[f] - 1
             w1 == IF current_value >= min[f]
                   THEN SetValue(w, f, current_value) ELSE w
         IN  post_message(w1, f, ButtonSpin(f, "down", current_value))

\* NumberSpinner._typed_anything for Input.Changed(value = v) of spinner f
typed_anything(w, f, v, has_focus) ==
    LET result == DigitsOnly(v)
    IN  IF StrLen(w.value[f]) # NumDigits(result)
        THEN SetInput(w, f, result)
        ELSE LET w1 == IF ~has_focus /\ number_valid(w, f)
                       THEN constrain_value(w, f) ELSE w
             IN  post_message(w1, f, NumberChanged(f, w1.value[f]))

(***************************************************************************)
(* BasicDatePicker.                                                        *)
(***************************************************************************)
\* the month > 12 correction of highest_day (lines 183-184)
highest_day_fix(w) ==
    IF w.value["month"] > 12 THEN SetValue(w, "month", 12) ELSE w

\* the number highest_day returns; monthrange raises IllegalMonthError for a
\* month below 1, which is reported as 0
highest_day(w) ==
    LET w1 == highest_day_fix(w)
    IN  IF w1.value["month"] < 1
        THEN 0
        ELSE monthrange(w1.value["year"], w1.value["month"])

\* validate without line 229: day.max is left as it was
validate_no_recompute(w) ==
    constrain_value(highest_day_fix(w), "day")

\* validate without line 230: the day is not constrained
validate_no_constrain(w) ==
    LET w1 == highest_day_fix(w)
        hd == highest_day(w)
    IN  IF hd = 0
        THEN [w1 EXCEPT !.raised = TRUE]
        ELSE [w1 EXCEPT !.max["day"] = hd]

\* BasicDatePicker.validate; an exception of highest_day leaves the handler
validate(w) ==
    LET w1 == highest_day_fix(w)
        hd == highest_day(w)
    IN  IF hd = 0
        THEN [w1 EXCEPT !.raised = TRUE]
        ELSE constrain_value([w1 EXCEPT !.max["day"] = hd], "day")

\* BasicDatePicker._on_change: one Changed(date_part, event.number) is posted
on_change(w, ev) == [w EXCEPT !.changed[ev.src] = @ + 1]

\* _on_spin variants used to test the properties: each is one rule changed
\* lines 193-194 without the assignment of month
RuleMonthOverflow_keep_month(w) ==
    SetValue(w, "year", w.value["year"] + 1)

\* lines 200-201 with month.min in place of month.max
RuleMonthUnderflow_to_min(w) ==
    LET w1 == SetValue(w, "year", w.value["year"] - 1)
    IN  SetValue(w1, "month", min["month"])

\* lines 203-204 without the assignment of day
RuleDayOverflow_keep_day(w) ==
    SetValue(w, "month", w.value["month"] + 1)

\* lines 206-209 without the decrement of year
RuleJanuaryUnderflow_keep_year(w) ==
    IF w.value["year"] # min["year"]
    THEN LET w1 == SetValue(w, "month", 12)
         IN  SetValue(w1, "day", w1.max["day"])
    ELSE LET w1 == SetValue(w, "month", 1)
         IN  SetValue(w1, "day", 1)

\* lines 206-212 without the test of year.min
RuleJanuaryUnderflow_unguarded(w) ==
    LET w1 == SetValue(w, "month", 12)
        w2 == SetValue(w1, "year", w1.value["year"] - 1)
    IN  SetValue(w2, "day", w2.max["day"])

\* The six rules of _on_spin, each the body of one branch.
\* lines 193-194
RuleMonthOverflow(w) ==
    LET w1 == SetValue(w, "year", w.value["year"] + 1)
    IN  SetValue(w1, "month", min["month"])

\* lines 196-198
RuleDecemberOverflow(w) ==
    LET w1 == SetValue(w, "month", 1)
        w2 == SetValue(w1, "day", 1)
    IN  SetValue(w2, "year", w2.value["year"] + 1)

\* lines 200-201
RuleMonthUnderflow(w) ==
    LET w1 == SetValue(w, "year", w.value["year"] - 1)
    IN  SetValue(w1, "month", w1.max["month"])

\* lines 203-204
RuleDayOverflow(w) ==
    LET w1 == SetValue(w, "month", w.value["month"] + 1)
    IN  SetValue(w1, "day", min["day"])

\* lines 206-212
RuleJanuaryUnderflow(w) ==
    IF w.value["year"] # min["year"]
    THEN LET w1 == SetValue(w, "month", 12)
             w2 == SetValue(w1, "year", w1.value["year"] - 1)
         IN  SetValue(w2, "day", w2.max["day"])
    ELSE LET w1 == SetValue(w, "month", 1)
         IN  SetValue(w1, "day", 1)

\* lines 214-215
RuleDayUnderflow(w) ==
    LET w1 == SetValue(w, "month", w.value["month"] - 1)
    IN  SetValue(w1, "day", w1.max["day"])

\* the chain of _on_spin with the generic day overflow (line 202) tested
\* before the December rule (line 195)
SpinRule_generic_first(w, ev) ==
    LET s == ev.src
        t == ev.number
    IN  IF s = "year" THEN "return"
        ELSE IF s = "month" /\ t > w.max[s]
                /\ w.value["year"] <= w.max["year"] THEN "month_overflow"
        ELSE IF s = "day" /\ t > w.max[s]
                /\ w.value["month"] <= w.max["month"] THEN "day_overflow"
        ELSE IF s = "day" /\ w.value["month"] = 12
                /\ t = highest_day(w) + 1 THEN "december_overflow"
        ELSE IF s = "month" /\ t < min[s]
                /\ w.value["year"] >= min["year"] THEN "month_underflow"
        ELSE IF s = "day" /\ t = 0 /\ w.value["month"] = 1 THEN "january_underflow"
        ELSE IF s = "day" /\ t < min[s]
                /\ w.value["month"] >= min["month"] THEN "day_underflow"
        ELSE "none"

\* The conditions of the if/elif chain of _on_spin, in the order of the
\* source; the first that holds names the branch taken.  highest_day is
\* evaluated only when the month is 12, where it changes nothing.
SpinRule(w, ev) ==
    LET s == ev.src
        t == ev.number
    IN  IF s = "year" THEN "return"
        ELSE IF s = "month" /\ t > w.max[s]
                /\ w.value["year"] <= w.max["year"] THEN "month_overflow"
        ELSE IF s = "day" /\ w.value["month"] = 12
                /\ t = highest_day(w) + 1 THEN "december_overflow"
        ELSE IF s = "month" /\ t < min[s]
                /\ w.value["year"] >= min["year"] THEN "month_underflow"
        ELSE IF s = "day" /\ t > w.max[s]
                /\ w.value["month"] <= w.max["month"] THEN "day_overflow"
        ELSE IF s = "day" /\ t = 0 /\ w.value["month"] = 1 THEN "january_underflow"
        ELSE IF s = "day" /\ t < min[s]
                /\ w.value["month"] >= min["month"] THEN "day_underflow"
        ELSE "none"

\* BasicDatePicker._on_spin
on_spin(w, ev) ==
    LET r == SpinRule(w, ev)
        w1 == [w EXCEPT !.rule = r]
    IN  IF r = "month_overflow" THEN RuleMonthOverflow(w1)
        ELSE IF r = "december_overflow" THEN RuleDecemberOverflow(w1)
        ELSE IF r = "month_underflow" THEN RuleMonthUnderflow(w1)
        ELSE IF r = "day_overflow" THEN RuleDayOverflow(w1)
        ELSE IF r = "january_underflow" THEN RuleJanuaryUnderflow(w1)
        ELSE IF r = "day_underflow" THEN RuleDayUnderflow(w1)
        ELSE w1

\* the value None of the date getter
None == <<>>

\* BasicDatePicker.date (getter) on the current state
date ==
    IF DateOk(value["year"], value["month"], value["day"])
    THEN <<value["year"], value["month"], value["day"]>>
    ELSE None

\* the setter followed by an immediate day.constrain_value()
date_set_clamped(w, v) ==
    LET w1 == SetValue(w, "day", v[3])
        w2 == SetValue(w1, "month", v[2])
    IN  constrain_value(SetValue(w2, "year", v[1]), "day")

\* BasicDatePicker.date (setter) with value = <<year, month, day>>
date_set(w, v) ==
    LET w1 == SetValue(w, "day", v[3])
        w2 == SetValue(w1, "month", v[2])
    IN  SetValue(w2, "year", v[1])

(***************************************************************************)
(* State machine.                                                          *)
(***************************************************************************)
NoMessages == [f \in Fields |-> <<>>]
NoneChanged == [f \in Fields |-> 0]

\* date.today().year of the run
TodayYear(min_year) == min_year + YearsSinceMin

\* the dates a picker with this min_year holds without clamping its year
InRangeDates(lo, hi) ==
    {v \in (lo..hi) \X (1..12) \X (1..31) : DateOk(v[1], v[2], v[3])}

\* the dates explored as initial value and in assignments of `date`: the
\* last day of every month and the first day of the year
CornerDates(lo, hi) ==
    {v \in InRangeDates(lo, hi) :
        v[3] = monthrange(v[1], v[2]) \/ (v[2] = 1 /\ v[3] = 1)}

\* the dates explored in assignments of `date`: the first and the last day of
\* the range, the end of a 30-day month and the end of every February
SetDates(lo, hi) ==
    {<<lo, 1, 1>>, <<lo, 4, 30>>, <<hi, 12, 31>>}
        \cup {<<y, 2, monthrange(y, 2)>> : y \in lo..hi}

\* BasicDatePicker.__init__ with initial_value = v, followed by the three
\* NumberSpinner.__init__: each Input is built with value = str(initial), whose
\* watcher posts the first Input.Changed; day.max is 31 whatever the month.
\* The initial values are within the bounds, so line 68 does not run.
Init ==
    \E min_year \in MinYears :
      \E v \in CornerDates(min_year, TodayYear(min_year) + 1) :
        /\ min = [day |-> 1, month |-> 1, year |-> min_year]
        /\ max = [day |-> 31, month |-> 12, year |-> TodayYear(min_year) + 1]
        /\ value = [day |-> v[3], month |-> v[2], year |-> v[1]]
        /\ inq = [f \in Fields |-> <<InputChanged(f, value[f])>>]
        /\ sq = NoMessages
        /\ pq = <<>>
        /\ changed = NoneChanged
        /\ rule = "none"
        /\ raised = FALSE
        /\ last = [op |-> "init", src |-> "none", direction |-> "none",
                   pre |-> None, arg |-> v, before |-> None]

\* no message is queued anywhere: every event so far is fully handled
Settled ==
    /\ \A f \in Fields : inq[f] = <<>> /\ sq[f] = <<>>
    /\ pq = <<>>

Apply(w) ==
    /\ value' = w.value
    /\ max' = w.max
    /\ inq' = w.inq
    /\ sq' = w.sq
    /\ pq' = w.pq
    /\ changed' = w.changed
    /\ rule' = w.rule
    /\ raised' = w.raised
    /\ min' = min

\* the world at the start of a user event: the per-event records are cleared
Fresh == [World EXCEPT !.rule = "none", !.changed = NoneChanged]

WithinDrift ==
    /\ value["year"] > min["year"] - MaxDrift
    /\ value["year"] < max["year"] + MaxDrift

\* the user presses the up or down button of spinner f (Button.Pressed
\* reaches _up_down_btn) once the previous event is fully handled; when a
\* day button follows the opposite day button, last.before keeps the triple
\* the first of the two presses started from
Press(f, dir) ==
    /\ Settled /\ ~raised /\ WithinDrift
    /\ Apply(up_down_btn(Fresh, f, dir))
    /\ last' = [op |-> "press", src |-> f, direction |-> dir,
                pre |-> <<value["year"], value["month"], value["day"]>>,
                arg |-> None,
                before |-> IF /\ f = "day" /\ last.op = "press"
                              /\ last.src = "day" /\ last.direction # dir
                           THEN last.pre ELSE None]

\* the owner assigns picker.date = v once the previous event is fully
\* handled; assignments are explored from the dates of SetDates
SetDate(v) ==
    /\ Settled /\ ~raised
    /\ date \in SetDates(min["year"], max["year"])
    /\ Apply(date_set(Fresh, v))
    /\ last' = [op |-> "date", src |-> "none", direction |-> "none",
                pre |-> <<value["year"], value["month"], value["day"]>>,
                arg |-> v, before |-> None]

\* the pump of the Input of spinner f (and of the inner Horizontal) passes
\* the oldest Input.Changed on to spinner f
InputPump(f) ==
    /\ ~raised
    /\ inq[f] # <<>>
    /\ Apply([World EXCEPT !.inq[f] = Tail(@), !.sq[f] = Append(@, Head(inq[f]))])
    /\ UNCHANGED last

\* the pump of spinner f takes its oldest message: Input.Changed runs
\* _typed_anything (the picker has no handler for it); the spinner's own
\* messages have no handler here and bubble towards the picker
SpinnerPump(f) ==
    /\ ~raised
    /\ sq[f] # <<>>
    /\ LET m == Head(sq[f])
           w == [World EXCEPT !.sq[f] = Tail(@)]
       IN  IF m.type = "InputChanged"
           THEN \E has_focus \in BOOLEAN :
                    Apply(typed_anything(w, f, m.number, has_focus))
           ELSE Apply([w EXCEPT !.pq = Append(@, m)])
    /\ UNCHANGED last

\* the pump of the picker takes its oldest message and runs the handlers
\* registered for it
PickerPump ==
    /\ ~raised
    /\ pq # <<>>
    /\ LET m == Head(pq)
           w == [World EXCEPT !.pq = Tail(@)]
       IN  IF m.type = "ButtonSpin"
           THEN Apply(on_spin(w, m))
           ELSE LET w1 == on_change(w, m)
                IN  Apply(IF m.src \in {"month", "year"} THEN validate(w1) ELSE w1)
    /\ UNCHANGED last

Pumps ==
    \/ \E f \in Fields : InputPump(f)
    \/ \E f \in Fields : SpinnerPump(f)
    \/ PickerPump

Next ==
    \/ \E f \in Fields, dir \in {"up", "down"} : Press(f, dir)
    \/ Settled /\ \E v \in SetDates(min["year"], max["year"]) : SetDate(v)
    \/ Pumps

Spec == Init /\ [][Next]_vars

(***************************************************************************)
(* Second state machine: the picker with the default min_year, built from  *)
(* initial dates whose year may lie outside the bounds, and driven by      *)
(* assignments of arbitrary integer triples, by spins from whatever the    *)
(* assignment left, and by the focus leaving an Input.  A run is one       *)
(* construction, at most one assignment, at most one spin, and blurs.      *)
(***************************************************************************)
\* the default of the min_year parameter
DefaultMinYear == 2010

\* NumberSpinner.__init__(min_val, max_val, initial_value) of spinner f: the
\* Input is built with str(initial_value) and, if that is not within the
\* bounds, assigned str(min) (lines 67-68); each posts an Input.Changed
spinner_init(f, min_val, max_val, initial_value) ==
    IF min_val <= initial_value /\ initial_value <= max_val
    THEN [value |-> initial_value, inq |-> <<InputChanged(f, initial_value)>>]
    ELSE [value |-> min_val,
          inq |-> <<InputChanged(f, initial_value), InputChanged(f, min_val)>>]

\* the initial_value dates explored: within the year bounds, two years below
\* them and two years above them
InitialValues(lo, hi) ==
    {<<lo, 1, 31>>, <<hi, 12, 31>>, <<lo - 2, 3, 31>>, <<hi + 2, 2, 28>>}

\* the triples (year, month, day) explored in assignments of `date`: a year
\* below and a year above the bounds, month 0, month 13, a negative month
\* and day 100
AssignedTriples(lo, hi) ==
    {<<lo - 2, 5, 15>>, <<hi + 2, 2, 29>>, <<lo, 0, 15>>, <<lo, 13, 31>>,
     <<lo, -3, 15>>, <<lo, 5, 100>>}

\* BasicDatePicker.__init__ with min_year left at its default
InitAny ==
    \E v \in InitialValues(DefaultMinYear, TodayYear(DefaultMinYear) + 1) :
      LET lo == [day |-> 1, month |-> 1, year |-> DefaultMinYear]
          hi == [day |-> 31, month |-> 12,
                 year |-> TodayYear(DefaultMinYear) + 1]
          initial == [day |-> v[3], month |-> v[2], year |-> v[1]]
          built == [f \in Fields |-> spinner_init(f, lo[f], hi[f], initial[f])]
      IN  /\ min = lo
          /\ max = hi
          /\ value = [f \in Fields |-> built[f].value]
          /\ inq = [f \in Fields |-> built[f].inq]
          /\ sq = NoMessages
          /\ pq = <<>>
          /\ changed = NoneChanged
          /\ rule = "none"
          /\ raised = FALSE
          /\ last = [op |-> "init", src |-> "none", direction |-> "none",
                     pre |-> None, arg |-> v, before |-> None]

\* the owner assigns picker.date = DateTuple(v[1], v[2], v[3]), any integers,
\* to the picker as constructed
AssignDate(v) ==
    /\ Settled /\ ~raised
    /\ last.op = "init"
    /\ Apply(date_set(Fresh, v))
    /\ last' = [op |-> "date", src |-> "none", direction |-> "none",
                pre |-> <<value["year"], value["month"], value["day"]>>,
                arg |-> v, before |-> None]

\* the user presses a button of spinner f, whatever value the spinner holds
Spin(f, dir) ==
    /\ Settled /\ ~raised
    /\ last.op \in {"init", "date"}
    /\ Apply(up_down_btn(Fresh, f, dir))
    /\ last' = [op |-> "press", src |-> f, direction |-> dir,
                pre |-> <<value["year"], value["month"], value["day"]>>,
                arg |-> None, before |-> None]

\* NumberSpinner._leave_input: the text is never empty here, so line 106 runs
leave_input(w, f) == constrain_value(w, f)

\* the focus leaves the Input of spinner f (DescendantBlur)
Blur(f) ==
    /\ Settled /\ ~raised
    /\ last.op # "blur"
    /\ Apply(leave_input(Fresh, f))
    /\ last' = [op |-> "blur", src |-> f, direction |-> "none",
                pre |-> <<value["year"], value["month"], value["day"]>>,
                arg |-> None, before |-> None]

NextAny ==
    \/ Settled /\ \E v \in AssignedTriples(min["year"], max["year"]) : AssignDate(v)
    \/ \E f \in Fields, dir \in {"up", "down"} : Spin(f, dir)
    \/ \E f \in Fields : Blur(f)
    \/ Pumps

SpecAny == InitAny /\ [][NextAny]_vars

\* every message pump is an asyncio task of its own, which the event loop
\* runs as long as the pump has a message to take
PumpFairness ==
    /\ \A f \in Fields : WF_vars(InputPump(f))
    /\ \A f \in Fields : WF_vars(SpinnerPump(f))
    /\ WF_vars(PickerPump)

\* the days explored in assignments that keep the year and the month: the
\* first day past the widest month, and a day of three digits
AssignedDays == {32, 100}

\* the runs in which the owner only assigns a date with another day, with
\* every pump running as long as it has a message
NextAssign ==
    \/ Settled /\ \E d \in AssignedDays :
                     AssignDate(<<value["year"], value["month"], d>>)
    \/ Pumps

SpecAssignFair == InitAny /\ [][NextAssign]_vars /\ PumpFairness

(***************************************************************************)
(* Vocabulary of the properties.                                           *)
(***************************************************************************)
\* the triple (year.value, month.value, day.value)
Cur == <<value["year"], value["month"], value["day"]>>

\* days-in-month under the Gregorian rule, as the specification words it
GregorianLeap(y) == (y % 4 = 0 /\ y % 100 # 0) \/ y % 400 = 0

DaysInMonth(y, m) ==
    IF m = 2 THEN (IF GregorianLeap(y) THEN 29 ELSE 28)
    ELSE IF m \in {4, 6, 9, 11} THEN 30
    ELSE 31

Smaller(a, b) == IF a <= b THEN a ELSE b

\* the event being handled (or, when Settled, the event last handled) is a
\* press of button dir of spinner f
Pressed(f, dir) == last.op = "press" /\ last.src = f /\ last.direction = dir

(***************************************************************************)
(* C1: after `date` is assigned a valid calendar date D with year in       *)
(* [min_year, year.max] and the assignment is fully handled, reading       *)
(* `date` returns exactly D.                                               *)
(***************************************************************************)
C1_DateRoundTrip ==
    (Settled /\ last.op = "date") => date = last.arg

\* an assignment of a 31st from a February state has been fully handled
C1_Witness ==
    /\ Settled /\ last.op = "date"
    /\ last.pre[2] = 2 /\ last.arg[3] = 31
    /\ date = last.arg

C3_ValidDate == Settled => date # None

\* a month spin that had to clamp the day has been fully handled
C3_Witness ==
    /\ Settled /\ last.op = "press" /\ last.src = "month"
    /\ last.pre[3] = 31 /\ value["day"] = 30
    /\ date # None

(***************************************************************************)
(* C4: at every settled state min_year <= year.value <= year.max; a month  *)
(* spin-up at month 12 with year at its max, and a month spin-down at      *)
(* month 1 with year at its min, leave the year inside its bounds.         *)
(***************************************************************************)
C4_YearBounds ==
    Settled => (min["year"] <= value["year"] /\ value["year"] <= max["year"])

(***************************************************************************)
(* C5: a day spin-up from a settled (y, m, d) with m < 12 and d the last   *)
(* day of month m of year y results in (y, m + 1, 1).                      *)
(***************************************************************************)
C5_DayOverflow ==
    (/\ Settled /\ Pressed("day", "up")
     /\ last.pre[2] < 12
     /\ last.pre[3] = DaysInMonth(last.pre[1], last.pre[2]))
        => Cur = <<last.pre[1], last.pre[2] + 1, 1>>

\* a day spin-up from 29 February has been fully handled
C5_Witness ==
    /\ Settled /\ Pressed("day", "up")
    /\ last.pre[2] = 2 /\ last.pre[3] = 29
    /\ Cur = <<last.pre[1], 3, 1>>

(***************************************************************************)
(* C6: a day spin-up from a settled (y, 12, 31) results in (y + 1, 1, 1)   *)
(* through the December rule, and month is never 13 while it is handled.   *)
(***************************************************************************)
C6_DecemberOverflow ==
    (/\ Pressed("day", "up")
     /\ last.pre[2] = 12 /\ last.pre[3] = 31)
        => /\ value["month"] \in {12, 1}
           /\ rule \in {"none", "december_overflow"}
           /\ Settled => /\ Cur = <<last.pre[1] + 1, 1, 1>>
                         /\ rule = "december_overflow"

\* a day spin-up from 31 December has been fully handled
C6_Witness ==
    /\ Settled /\ Pressed("day", "up")
    /\ last.pre[2] = 12 /\ last.pre[3] = 31
    /\ Cur = <<last.pre[1] + 1, 1, 1>>

(***************************************************************************)
(* C7: a day spin-down from a settled (y, 1, 1) with y > min_year results  *)
(* in (y - 1, 12, 31).                                                     *)
(***************************************************************************)
C7_JanuaryUnderflow ==
    (/\ Settled /\ Pressed("day", "down")
     /\ last.pre[2] = 1 /\ last.pre[3] = 1
     /\ last.pre[1] > min["year"])
        => Cur = <<last.pre[1] - 1, 12, 31>>

\* a day spin-down from 1 January above the minimum year has been handled
C7_Witness ==
    /\ Settled /\ Pressed("day", "down")
    /\ last.pre[2] = 1 /\ last.pre[3] = 1
    /\ last.pre[1] > min["year"]
    /\ Cur = <<last.pre[1] - 1, 12, 31>>

(***************************************************************************)
(* C8: a day spin-down from the settled (min_year, 1, 1) leaves the state  *)
(* at (min_year, 1, 1); while it is handled the year is never below        *)
(* min_year and the month never below 1.  As the result is the state it    *)
(* started from, further day spin-downs keep it there.                     *)
(***************************************************************************)
C8_ClampAtMinimum ==
    (/\ Pressed("day", "down")
     /\ last.pre = <<min["year"], 1, 1>>)
        => /\ value["year"] >= min["year"]
           /\ value["month"] >= 1
           /\ Settled => Cur = <<min["year"], 1, 1>>

\* a day spin-down from (min_year, 1, 1) has been fully handled
C8_Witness ==
    /\ Settled /\ Pressed("day", "down")
    /\ last.pre = <<min["year"], 1, 1>>
    /\ rule = "january_underflow"
    /\ Cur = <<min["year"], 1, 1>>

(***************************************************************************)
(* C9: a day spin-down from a settled (y, m, 1) with m > 1 results in      *)
(* (y, m - 1, L), L the number of days of month m - 1 of year y.           *)
(***************************************************************************)
C9_DayUnderflow ==
    (/\ Settled /\ Pressed("day", "down")
     /\ last.pre[2] > 1 /\ last.pre[3] = 1)
        => Cur = <<last.pre[1], last.pre[2] - 1,
                   DaysInMonth(last.pre[1], last.pre[2] - 1)>>

(***************************************************************************)
(* C10: a month spin-up from a settled (y, 12, d) with y below year.max    *)
(* results in (y + 1, 1, d'), d' the smaller of d and the number of days   *)
(* of January of year y + 1.                                               *)
(***************************************************************************)
C10_MonthOverflow ==
    (/\ Settled /\ Pressed("month", "up")
     /\ last.pre[2] = 12
     /\ last.pre[1] < max["year"])
        => Cur = <<last.pre[1] + 1, 1,
                   Smaller(last.pre[3], DaysInMonth(last.pre[1] + 1, 1))>>

\* a month spin-up from December below the maximum year has been handled
C10_Witness ==
    /\ Settled /\ Pressed("month", "up")
    /\ last.pre[2] = 12 /\ last.pre[1] < max["year"]
    /\ Cur = <<last.pre[1] + 1, 1, last.pre[3]>>

(***************************************************************************)
(* C11: a month spin-down from a settled (y, 1, d) with y above min_year   *)
(* results in (y - 1, 12, d).                                              *)
(***************************************************************************)
C11_MonthUnderflow ==
    (/\ Settled /\ Pressed("month", "down")
     /\ last.pre[2] = 1
     /\ last.pre[1] > min["year"])
        => Cur = <<last.pre[1] - 1, 12, last.pre[3]>>

\* a month spin-down from a 31 January above the minimum year has been handled
C11_Witness ==
    /\ Settled /\ Pressed("month", "down")
    /\ last.pre[2] = 1 /\ last.pre[3] = 31
    /\ last.pre[1] > min["year"]
    /\ Cur = <<last.pre[1] - 1, 12, 31>>

(***************************************************************************)
(* C12: when a month or year spin commits a new value within the bounds    *)
(* from a settled (y, m, d), the settled result is (y', m', d') with d'    *)
(* the smaller of d and the number of days of month m' of year y'.         *)
(***************************************************************************)
\* the triple after the spin of last, did the spinner commit its candidate
Spun ==
    LET step == IF last.direction = "up" THEN 1 ELSE -1
    IN  IF last.src = "month"
        THEN <<last.pre[1], last.pre[2] + step, last.pre[3]>>
        ELSE <<last.pre[1] + step, last.pre[2], last.pre[3]>>

C12_DayReclamp ==
    (/\ Settled /\ last.op = "press" /\ last.src \in {"month", "year"}
     /\ Spun[2] \in min["month"]..max["month"]
     /\ Spun[1] \in min["year"]..max["year"])
        => Cur = <<Spun[1], Spun[2],
                   Smaller(Spun[3], DaysInMonth(Spun[1], Spun[2]))>>

\* a month spin-down from 31 March of a leap year has been fully handled
C12_Witness ==
    /\ Settled /\ Pressed("month", "down")
    /\ last.pre[2] = 3 /\ last.pre[3] = 31
    /\ Cur = <<last.pre[1], 2, 29>>

(***************************************************************************)
(* C17: dispatch is synchronous and depth-first: the value-changed         *)
(* notification of an assignment inside a handler, with the recomputation  *)
(* of day.max and the clamp of the day, is handled before the handler's    *)
(* next assignment and nothing is deferred to a queue; so once an          *)
(* underflow rule has assigned day := day.max, no value-changed            *)
(* notification of the month or the year is waiting and the day is the     *)
(* last day of the month and year just assigned.                           *)
(***************************************************************************)
\* a NumberChanged of spinner f waits in the spinner's or the picker's queue
Deferred(f) ==
    \/ \E i \in 1..Len(sq[f]) : sq[f][i].type = "NumberChanged"
    \/ \E i \in 1..Len(pq) : pq[i].type = "NumberChanged" /\ pq[i].src = f

\* _on_spin has run a branch that ends with day.value = day.max
AssignedDayMax ==
    \/ rule = "day_underflow"
    \/ rule = "january_underflow" /\ last.pre[1] # min["year"]

C17_SynchronousDispatch ==
    AssignedDayMax
        => /\ ~Deferred("month") /\ ~Deferred("year")
           /\ value["day"] = DaysInMonth(value["year"], value["month"])

(***************************************************************************)
(* C18: a committed change of one field produces exactly one               *)
(* datePartChanged notification for that field: once a spin that committed *)
(* its candidate without any rollover rule is fully handled, one Changed   *)
(* has been posted for the spun part.                                      *)
(***************************************************************************)
\* the value of spinner f when the event of last started
PreValue(f) ==
    IF f = "year" THEN last.pre[1]
    ELSE IF f = "month" THEN last.pre[2]
    ELSE last.pre[3]

\* the press of last committed its candidate and no rule of _on_spin ran
PlainCommit ==
    /\ last.op = "press"
    /\ rule \in {"none", "return"}
    /\ value[last.src] = PreValue(last.src)
                            + (IF last.direction = "up" THEN 1 ELSE -1)

C18_OneChangedPerCommit ==
    (Settled /\ PlainCommit) => changed[last.src] = 1

(***************************************************************************)
(* C19: day spins are mutually inverse: from a settled valid date within   *)
(* the year bounds, a day spin-down followed by a day spin-up returns to   *)
(* that date unless it is (min_year, 1, 1), and a day spin-up followed by  *)
(* a day spin-down returns to it, also across month and year boundaries.   *)
(***************************************************************************)
C19_DaySpinsInverse ==
    (/\ Settled /\ last.op = "press" /\ last.src = "day"
     /\ last.before # None
     /\ DateOk(last.before[1], last.before[2], last.before[3])
     /\ last.before[1] \in min["year"]..max["year"]
     /\ last.direction = "up" => last.before # <<min["year"], 1, 1>>)
        => Cur = last.before

(***************************************************************************)
(* C13: no operation of the picker raises: whatever integer triple is      *)
(* assigned through `date` and whatever button is pressed, no handler      *)
(* (the recomputation of day.max included) ends with an exception.         *)
(***************************************************************************)
C13_NoOperationRaises == ~raised

(***************************************************************************)
(* C14: a spin of a field in direction up (down) computes the candidate    *)
(* value + 1 (value - 1); the candidate becomes the value, with a change   *)
(* notification, exactly when min <= candidate <= max, otherwise the value *)
(* stays; in both cases exactly one spin-attempt notification carrying the *)
(* candidate and the direction is emitted.                                 *)
(***************************************************************************)
\* the messages of type t in the queue q
OfType(q, t) == SelectSeq(q, LAMBDA m : m.type = t)

SpinContract(f, dir) ==
    LET candidate == value[f] + (IF dir = "up" THEN 1 ELSE -1)
        commits == min[f] <= candidate /\ candidate <= max[f]
    IN  /\ value'[f] = IF commits THEN candidate ELSE value[f]
        /\ OfType(sq'[f], "NumberChanged") =
              IF commits THEN <<NumberChanged(f, candidate)>> ELSE <<>>
        /\ OfType(sq'[f], "ButtonSpin") = <<ButtonSpin(f, dir, candidate)>>

C14_SpinContract ==
    [][\A f \in Fields, dir \in {"up", "down"} :
          Spin(f, dir) => SpinContract(f, dir)]_vars

(***************************************************************************)
(* C15: constrain is bounded and idempotent: when the focus leaves a field *)
(* holding v, the field holds max if v > max, min if v < min and v         *)
(* otherwise, which is within [min, max], and constraining it once more    *)
(* changes nothing.                                                        *)
(***************************************************************************)
Clamp(v, lo, hi) == IF v > hi THEN hi ELSE IF v < lo THEN lo ELSE v

C15_ConstrainIdempotent ==
    last.op = "blur"
        => LET f == last.src
           IN  /\ value[f] = Clamp(PreValue(f), min[f], max[f])
               /\ min[f] <= value[f] /\ value[f] <= max[f]
               /\ constrain_value(World, f) = World

\* the focus has left the year field while it held a year below min_year
C15_Witness ==
    /\ last.op = "blur" /\ last.src = "year"
    /\ last.pre[1] < min["year"]
    /\ value["year"] = min["year"]

(***************************************************************************)
(* C16: a field constructed with (min, max, initial) holds initial when    *)
(* min <= initial <= max, and otherwise the nearest bound: max when        *)
(* initial > max, min when initial < min.                                  *)
(***************************************************************************)
\* the initial_value the spinner f was constructed with
InitialOf(f) ==
    IF f = "year" THEN last.arg[1]
    ELSE IF f = "month" THEN last.arg[2]
    ELSE last.arg[3]

C16_ClampOnConstruct ==
    last.op = "init"
        => \A f \in Fields : value[f] = Clamp(InitialOf(f), min[f], max[f])

(***************************************************************************)
(* C20: every spin and every assignment of `date` triggers only a finite   *)
(* cascade: whatever happens, the picker eventually is settled again, with *)
(* no notification pending (or has stopped on an exception, which is the   *)
(* subject of C13).                                                        *)
(***************************************************************************)
C20_Quiescence == []<>(Settled \/ raised)

====
